---------------------------- MODULE Spec2Model ----------------------------
(***************************************************************************)
(* Model of process_lines_with_atoms (traj_file/process_lines.cpp).        *)
(*                                                                         *)
(* A line of text is a sequence of one-character strings.  The stream      *)
(* extraction  iss >> atom >> x >> y >> z  is modelled character by         *)
(* character: leading whitespace is skipped before every field, a string   *)
(* field runs up to the next whitespace, a float field is the longest      *)
(* prefix  [sign] digits [. digits]  and needs at least one digit.         *)
(* The alphabet holds no exponent marker and no hexadecimal letter, so the *)
(* exponent part of a float literal is outside the model.                  *)
(*                                                                         *)
(* A float value is the decimal it was read from, [m, e] standing for      *)
(* m * 10^(-e) with trailing zeros of the fraction removed; the literals   *)
(* of the model have at most seven significant digits and no two of them   *)
(* round to the same 32-bit float.                                         *)
(***************************************************************************)
EXTENDS Integers, Sequences, FiniteSets, TLC

\* ------------------------------------------------------------------ bounds
MaxLines == 2
MaxAtoms == 3
MaxLineLen == 8

\* ------------------------------------------------------ characters, floats
Whitespace == {" "}
Digits == {"0", "1", "2", "3", "4", "5", "6", "7", "8", "9"}
Signs == {"-", "+"}

DigitVal(c) ==
    CASE c = "0" -> 0 [] c = "1" -> 1 [] c = "2" -> 2 [] c = "3" -> 3
      [] c = "4" -> 4 [] c = "5" -> 5 [] c = "6" -> 6 [] c = "7" -> 7
      [] c = "8" -> 8 [] c = "9" -> 9

RECURSIVE Pow10(_)
Pow10(k) == IF k <= 0 THEN 1 ELSE 10 * Pow10(k - 1)

\* the value of the digits s[a], ..., s[b-1]
RECURSIVE DigitsVal(_, _, _)
DigitsVal(s, a, b) ==
    IF b <= a THEN 0 ELSE DigitsVal(s, a, b - 1) * 10 + DigitVal(s[b - 1])

RECURSIVE MkFloat(_, _)
MkFloat(m, e) ==
    IF e > 0 /\ m % 10 = 0 THEN MkFloat(m \div 10, e - 1) ELSE [m |-> m, e |-> e]

\* float(): the value of a value-initialised element of std::vector<float>
FloatZero == MkFloat(0, 0)

\* std::string(): the value of a value-initialised element of the labels
EmptyString == << >>

\* ------------------------------------------------------- stream extraction
\* the position of the first non-whitespace character at or after p
RECURSIVE SkipWs(_, _)
SkipWs(s, p) ==
    IF p <= Len(s) /\ s[p] \in Whitespace THEN SkipWs(s, p + 1) ELSE p

\* the position after the run of non-whitespace characters starting at p
RECURSIVE ScanWord(_, _)
ScanWord(s, p) ==
    IF p <= Len(s) /\ s[p] \notin Whitespace THEN ScanWord(s, p + 1) ELSE p

\* the position after the run of digits starting at p
RECURSIVE ScanDigits(_, _)
ScanDigits(s, p) ==
    IF p <= Len(s) /\ s[p] \in Digits THEN ScanDigits(s, p + 1) ELSE p

\* iss >> atom, the stream standing at position p
ExtractString(s, p) ==
    LET q == SkipWs(s, p)
        r == ScanWord(s, q)
    IN  IF q > Len(s)
        THEN [ok |-> FALSE, val |-> EmptyString, pos |-> q]
        ELSE [ok |-> TRUE, val |-> SubSeq(s, q, r - 1), pos |-> r]

\* iss >> x, the stream standing at position p
ExtractFloat(s, p) ==
    LET q == SkipWs(s, p)
        signed == q <= Len(s) /\ s[q] \in Signs
        a == IF signed THEN q + 1 ELSE q
        b == ScanDigits(s, a)
        dotted == b <= Len(s) /\ s[b] = "."
        c == IF dotted THEN ScanDigits(s, b + 1) ELSE b
        nInt == b - a
        nFrac == IF dotted THEN c - (b + 1) ELSE 0
        mag == DigitsVal(s, a, b) * Pow10(nFrac)
                 + (IF dotted THEN DigitsVal(s, b + 1, c) ELSE 0)
        neg == signed /\ s[q] = "-"
    IN  IF nInt + nFrac = 0
        THEN [ok |-> FALSE, val |-> FloatZero, pos |-> c]
        ELSE [ok |-> TRUE,
              val |-> MkFloat(IF neg THEN 0 - mag ELSE mag, nFrac),
              pos |-> c]

\* a stricter extraction: nothing but whitespace may follow the record
ExtractRecordStrict(s) ==
    LET atom == ExtractString(s, 1)
        x == ExtractFloat(s, atom.pos)
        y == ExtractFloat(s, x.pos)
        z == ExtractFloat(s, y.pos)
    IN  [ok |-> atom.ok /\ x.ok /\ y.ok /\ z.ok /\ SkipWs(s, z.pos) > Len(s),
         atom |-> atom.val, x |-> x.val, y |-> y.val, z |-> z.val]

\* iss >> atom >> x >> y >> z: an extraction after a failed one does nothing
ExtractRecord(s) ==
    LET atom == ExtractString(s, 1)
        x == ExtractFloat(s, atom.pos)
        y == ExtractFloat(s, x.pos)
        z == ExtractFloat(s, y.pos)
    IN  [ok |-> atom.ok /\ x.ok /\ y.ok /\ z.ok,
         atom |-> atom.val, x |-> x.val, y |-> y.val, z |-> z.val]

\* ------------------------------------------------------------- the inputs
\* "O 0.0 0.0 0.0": a well-formed record
LineO == <<"O", " ", "0", ".", "0", " ", "0", ".", "0", " ", "0", ".", "0">>

\* "H 0.957 0.0 0.0": a well-formed record
LineH == <<"H", " ", "0", ".", "9", "5", "7", " ", "0", ".", "0", " ", "0", ".", "0">>

\* "H -0.24 0.927 0": a well-formed record with a negative coordinate
LineHNeg == <<"H", " ", "-", "0", ".", "2", "4", " ", "0", ".", "9", "2", "7", " ", "0">>

\* "  H   1 2   3 ": a well-formed record with runs of whitespace
LineSpaced == <<" ", " ", "H", " ", " ", " ", "1", " ", "2", " ", " ", " ", "3", " ">>

\* "O 1.0 2.0 3.0 H": a fifth token after the record
LineTrailing == <<"O", " ", "1", ".", "0", " ", "2", ".", "0", " ", "3", ".", "0", " ", "H">>

\* "O 0.0 0.0": three tokens: the third coordinate is missing
LineShort == <<"O", " ", "0", ".", "0", " ", "0", ".", "0">>

\* "H 1.0 O 3.0": the third token is no number
LineBadToken == <<"H", " ", "1", ".", "0", " ", "O", " ", "3", ".", "0">>

\* "H 1-2 3": three tokens, the second holding two numbers
LineGlued == <<"H", " ", "1", "-", "2", " ", "3">>

\* "H 1-2 3 4": four tokens, the second holding two numbers
LineGlued4 == <<"H", " ", "1", "-", "2", " ", "3", " ", "4">>

\* "H 1 2 3H": the fourth token is a number followed by a letter
LineSuffix == <<"H", " ", "1", " ", "2", " ", "3", "H">>

\* "": an empty line
LineEmpty == << >>

SampleLines ==
    {LineO, LineH, LineHNeg, LineSpaced,
     LineTrailing, LineShort, LineBadToken, LineGlued,
     LineGlued4, LineSuffix, LineEmpty}

\* every line of at most MaxLineLen characters over a four-letter alphabet
Alphabet == {" ", "H", "1", "-"}

ShortLines == UNION {[1..k -> Alphabet] : k \in 0..MaxLineLen}

\* the inputs of a call: up to MaxLines sample lines, or one short line
SampleInputs == UNION {[1..k -> SampleLines] : k \in 0..MaxLines}

Inputs == SampleInputs \cup {<<l>> : l \in ShortLines}

\* n_atoms is an int: the caller may pass a negative count
Counts == (0 - 1)..MaxAtoms

\* the inputs of the calls of a sequence of calls
PairLines == {LineH, LineHNeg, LineShort}

PairInputs == UNION {[1..k -> PairLines] : k \in 0..MaxLines}

\* what input[i] may yield when i is no index of input (undefined behaviour)
GarbageLines == {LineHNeg, LineShort}

\* -------------------------------------------------------------- the state
VARIABLES
    input,      \* the argument input
    n_atoms,    \* the argument n_atoms
    pc,         \* "entry", "loop", "returned", "thrown" or "crashed"
    i,          \* the loop counter
    atoms,      \* the local vector atoms (empty while it does not exist)
    xyz,        \* the local vector xyz (empty while it does not exist)
    ret,        \* what the caller receives
    reads,      \* the evaluations of input[i] so far: index and line yielded
    written,    \* the element assignments so far: vector and index
    hist        \* the previous call of this process: arguments and outcome

vars == <<input, n_atoms, pc, i, atoms, xyz, ret, reads, written, hist>>

NoReturn == [kind |-> "none"]
NoCall == [kind |-> "none"]

\* the state of a call of process_lines_with_atoms(lines, n) about to run
Enter(lines, n) ==
    /\ input = lines
    /\ n_atoms = n
    /\ pc = "entry"
    /\ i = 0
    /\ atoms = << >>
    /\ xyz = << >>
    /\ ret = NoReturn
    /\ reads = << >>
    /\ written = << >>

Init ==
    /\ \E lines \in Inputs, n \in Counts : Enter(lines, n)
    /\ hist = NoCall

InitPair ==
    /\ \E lines \in PairInputs, n \in Counts : Enter(lines, n)
    /\ hist = NoCall

\* ------------------------------------------------------------ the function
\* a vector of labels one element too long
NewAtomsOneMore(n) == [k \in 1..(n + 1) |-> EmptyString]

\* std::vector<std::string> atoms(n_atoms)
NewAtoms(n) == [k \in 1..n |-> EmptyString]

\* a vector of coordinates with one element for each atom
NewXyzUnscaled(n) == [k \in 1..n |-> FloatZero]

\* std::vector<float> xyz(n_atoms * 3)
NewXyz(n) == [k \in 1..(n * 3) |-> FloatZero]

\* a loop that runs one iteration too many
LoopCondInclusive == i <= n_atoms

\* i < n_atoms
LoopCond == i < n_atoms

\* an index of xyz without the stride
XyzIndexUnscaled(k, c) == k + c

\* the index (i * 3) + c of xyz
XyzIndex(k, c) == (k * 3) + c

\* an exception leaves the function: the locals are destroyed
Throw(what) ==
    /\ pc' = "thrown"
    /\ ret' = [kind |-> what]
    /\ atoms' = << >>
    /\ xyz' = << >>
    /\ UNCHANGED <<input, n_atoms, i, written, hist>>

\* atoms[i] = atom; xyz[(i * 3) + 0] = x; ... + 1] = y; ... + 2] = z
Store(r) ==
    /\ atoms' = [atoms EXCEPT ![i + 1] = r.atom]
    /\ xyz' = [xyz EXCEPT ![XyzIndex(i, 0) + 1] = r.x,
                          ![XyzIndex(i, 1) + 1] = r.y,
                          ![XyzIndex(i, 2) + 1] = r.z]
    /\ written' = written \o <<[vec |-> "atoms", idx |-> i],
                               [vec |-> "xyz", idx |-> XyzIndex(i, 0)],
                               [vec |-> "xyz", idx |-> XyzIndex(i, 1)],
                               [vec |-> "xyz", idx |-> XyzIndex(i, 2)]>>
    /\ i' = i + 1
    /\ pc' = "loop"
    /\ UNCHANGED <<input, n_atoms, ret, hist>>

\* the call stands before the construction of the vectors, which succeeds
CanConstruct == pc = "entry" /\ n_atoms >= 0

\* the loop condition holds and input[i] is an element of input
CanParse == pc = "loop" /\ LoopCond /\ i < Len(input)

\* the loop condition fails
CanReturn == pc = "loop" /\ ~LoopCond

\* the two vectors are constructed
Construct ==
    /\ CanConstruct
    /\ atoms' = NewAtoms(n_atoms)
    /\ xyz' = NewXyz(n_atoms)
    /\ i' = 0
    /\ pc' = "loop"
    /\ UNCHANGED <<input, n_atoms, ret, reads, written, hist>>

\* a negative n_atoms converts to a size above max_size(): std::length_error
ConstructThrow ==
    /\ pc = "entry"
    /\ n_atoms < 0
    /\ Throw("length_error")
    /\ UNCHANGED reads

\* one iteration on a line that parses
ParseOk ==
    /\ CanParse
    /\ ExtractRecord(input[i + 1]).ok
    /\ reads' = Append(reads, [idx |-> i, line |-> input[i + 1]])
    /\ Store(ExtractRecord(input[i + 1]))

\* an iteration that skips a line that does not parse and goes on
ParseSkip ==
    /\ CanParse
    /\ ~ExtractRecord(input[i + 1]).ok
    /\ reads' = Append(reads, [idx |-> i, line |-> input[i + 1]])
    /\ i' = i + 1
    /\ pc' = "loop"
    /\ UNCHANGED <<input, n_atoms, atoms, xyz, ret, written, hist>>

\* one iteration on a line that does not parse: std::runtime_error
ParseThrow ==
    /\ CanParse
    /\ ~ExtractRecord(input[i + 1]).ok
    /\ reads' = Append(reads, [idx |-> i, line |-> input[i + 1]])
    /\ Throw("runtime_error")

\* input[i] with i >= input.size() is undefined: the process may be killed,
OutOfRangeCrash ==
    /\ pc = "loop"
    /\ LoopCond
    /\ i >= Len(input)
    /\ pc' = "crashed"
    /\ ret' = [kind |-> "crash"]
    /\ reads' = Append(reads, [idx |-> i, line |-> << >>])
    /\ UNCHANGED <<input, n_atoms, i, atoms, xyz, written, hist>>

\* or the memory behind the vector is read as a string that parses,
OutOfRangeOk ==
    /\ pc = "loop"
    /\ LoopCond
    /\ i >= Len(input)
    /\ \E g \in GarbageLines :
          /\ ExtractRecord(g).ok
          /\ reads' = Append(reads, [idx |-> i, line |-> g])
          /\ Store(ExtractRecord(g))

\* or as a string that does not parse
OutOfRangeThrow ==
    /\ pc = "loop"
    /\ LoopCond
    /\ i >= Len(input)
    /\ \E g \in GarbageLines :
          /\ ~ExtractRecord(g).ok
          /\ reads' = Append(reads, [idx |-> i, line |-> g])
          /\ Throw("runtime_error")

\* return {atoms, xyz}: the caller receives copies, the locals are destroyed
Return ==
    /\ CanReturn
    /\ pc' = "returned"
    /\ ret' = [kind |-> "value", atoms |-> atoms, xyz |-> xyz]
    /\ atoms' = << >>
    /\ xyz' = << >>
    /\ UNCHANGED <<input, n_atoms, i, reads, written, hist>>

\* the caller, having received the outcome of a call, calls again
NextCall ==
    /\ pc \in {"returned", "thrown"}
    /\ hist' = [kind |-> "call", input |-> input, n_atoms |-> n_atoms, ret |-> ret]
    /\ \E lines \in PairInputs, n \in Counts :
          /\ input' = lines
          /\ n_atoms' = n
    /\ pc' = "entry"
    /\ i' = 0
    /\ atoms' = << >>
    /\ xyz' = << >>
    /\ ret' = NoReturn
    /\ reads' = << >>
    /\ written' = << >>

Next ==
    \/ Construct
    \/ ConstructThrow
    \/ ParseOk
    \/ ParseThrow
    \/ OutOfRangeCrash
    \/ OutOfRangeOk
    \/ OutOfRangeThrow
    \/ Return

Spec == Init /\ [][Next]_vars

NextPair == Next \/ NextCall

SpecPair == InitPair /\ [][NextPair]_vars

\* ------------------------------------------- the vocabulary of the claims
\* A token is a maximal run of non-whitespace characters of a line.
TokenStarts(s) ==
    {k \in 1..Len(s) : s[k] # " " /\ (k = 1 \/ s[k - 1] = " ")}

TokenCount(s) == Cardinality(TokenStarts(s))

\* the n-th token of s, for n in 1..TokenCount(s)
Token(s, n) ==
    LET a == CHOOSE k \in TokenStarts(s) :
                 Cardinality({j \in TokenStarts(s) : j < k}) = n - 1
        b == CHOOSE e \in a..Len(s) :
                 /\ \A j \in a..e : s[j] # " "
                 /\ e = Len(s) \/ s[e + 1] = " "
    IN  SubSeq(s, a, b)

\* a token without its sign
Unsigned(t) == IF t # << >> /\ t[1] \in {"-", "+"} THEN Tail(t) ELSE t

\* the token is a floating-point literal: [sign] digits [. digits], a digit
\* at least
IsNumber(t) ==
    LET u == Unsigned(t)
        dots == {k \in 1..Len(u) : u[k] = "."}
    IN  /\ \A k \in 1..Len(u) : u[k] \in Digits \cup {"."}
        /\ Cardinality(dots) <= 1
        /\ Len(u) > Cardinality(dots)

IsDigit(c) == c \in Digits

\* the value of a token that is a floating-point literal
NumberValue(t) ==
    LET u == Unsigned(t)
        dots == {k \in 1..Len(u) : u[k] = "."}
        nFrac == IF dots = {} THEN 0 ELSE Len(u) - (CHOOSE k \in dots : TRUE)
        ds == SelectSeq(u, IsDigit)
        mag == DigitsVal(ds, 1, Len(ds) + 1)
    IN  MkFloat(IF t[1] = "-" THEN 0 - mag ELSE mag, nFrac)

\* a label token followed by three numeric tokens
WellFormed(s) ==
    /\ TokenCount(s) >= 4
    /\ IsNumber(Token(s, 2))
    /\ IsNumber(Token(s, 3))
    /\ IsNumber(Token(s, 4))

\* the call was given at least n_atoms lines
Supplied == n_atoms <= Len(input)

\* the call is over
Over == pc \in {"returned", "thrown", "crashed"}

\* a step of the call on lines that exist can be taken: Construct, ParseOk
\* or ParseThrow, or Return
CanStep == CanConstruct \/ CanParse \/ CanReturn

\* the returned record k (from 1) is the first four tokens of line s
RecordOf(as, cs, k, s) ==
    /\ as[k] = Token(s, 1)
    /\ cs[3 * (k - 1) + 1] = NumberValue(Token(s, 2))
    /\ cs[3 * (k - 1) + 2] = NumberValue(Token(s, 3))
    /\ cs[3 * (k - 1) + 3] = NumberValue(Token(s, 4))

\* ---------------------------------------------------------------- claims
\* C1: when n_atoms >= 0 and each of the first n_atoms lines is a label token
\* followed by three numeric tokens, the call neither throws nor stops short
\* of returning, and it returns n_atoms labels and 3 * n_atoms coordinates.
C1_Lengths ==
    (n_atoms >= 0 /\ Supplied /\ \A k \in 1..n_atoms : WellFormed(input[k]))
    => /\ pc \notin {"thrown", "crashed"}
       /\ pc = "returned" \/ CanStep
       /\ pc = "returned" =>
             /\ ret.kind = "value"
             /\ Len(ret.atoms) = n_atoms
             /\ Len(ret.xyz) = 3 * n_atoms

C1_Witness ==
    /\ pc = "returned"
    /\ n_atoms = 2
    /\ Len(input) = 2
    /\ WellFormed(input[1]) /\ WellFormed(input[2])
    /\ input[1] # input[2]

\* C2: on a successful return, for every i in [0, n_atoms): labels[i] is the
\* first token of lines[i] and coords[3i], coords[3i+1], coords[3i+2] are the
\* values of its second, third and fourth tokens.  (Stated for the calls
\* that were given at least n_atoms lines.)
C2_TokenValues ==
    (pc = "returned" /\ Supplied)
    => \A k \in 1..n_atoms :
          /\ TokenCount(input[k]) >= 4
          /\ IsNumber(Token(input[k], 2))
          /\ IsNumber(Token(input[k], 3))
          /\ IsNumber(Token(input[k], 4))
          /\ RecordOf(ret.atoms, ret.xyz, k, input[k])

\* C3: when a line among the first n_atoms has fewer than four tokens or a
\* second, third or fourth token that is no floating-point number, the call
\* fails with the parse error; and the outcome of a call is either both
\* complete sequences or an error with no sequence.  (Stated for the calls
\* that were given at least n_atoms lines.)
C3_MalformedFails ==
    /\ (n_atoms >= 0 /\ Supplied /\ Over
           /\ \E k \in 1..n_atoms : ~WellFormed(input[k]))
       => ret = [kind |-> "runtime_error"]
    /\ (Supplied /\ Over) =>
          \/ /\ ret.kind = "value"
             /\ Len(ret.atoms) = n_atoms
             /\ Len(ret.xyz) = 3 * n_atoms
          \/ ret \in {[kind |-> "runtime_error"], [kind |-> "length_error"]}

\* C4: when n_atoms exceeds the number of lines the call ends in an error,
\* and no line is read at an index >= length(lines).
C4_BoundsChecked ==
    /\ \A k \in 1..Len(reads) : reads[k].idx < Len(input)
    /\ (Over /\ n_atoms > Len(input)) => pc = "thrown"

\* C5: only indices 0..n_atoms-1 are read, and two calls whose inputs agree
\* on their first n_atoms lines have the same outcome, whatever the lines
\* after them are.
C5_Frame ==
    /\ \A k \in 1..Len(reads) : reads[k].idx \in 0..(n_atoms - 1)
    /\ (/\ hist.kind = "call"
        /\ Over
        /\ hist.n_atoms = n_atoms
        /\ Supplied
        /\ n_atoms <= Len(hist.input)
        /\ SubSeq(input, 1, n_atoms) = SubSeq(hist.input, 1, n_atoms))
       => ret = hist.ret

C5_Witness ==
    /\ hist.kind = "call"
    /\ pc = "returned"
    /\ n_atoms = 1
    /\ hist.n_atoms = 1
    /\ input = <<LineH, LineShort>>
    /\ hist.input = <<LineH>>

\* C6: with n_atoms = 0 the call succeeds on every input, returns two empty
\* sequences and reads no line.
C6_ZeroAtoms ==
    n_atoms = 0
    => /\ pc \notin {"thrown", "crashed"}
       /\ pc = "returned" \/ CanStep
       /\ reads = << >>
       /\ pc = "returned" => ret = [kind |-> "value", atoms |-> << >>, xyz |-> << >>]

C6_Witness ==
    /\ n_atoms = 0
    /\ pc = "returned"
    /\ Len(input) = 2
    /\ ~WellFormed(input[1]) /\ ~WellFormed(input[2])
    /\ ~ExtractRecord(input[1]).ok /\ ~ExtractRecord(input[2]).ok

\* a line of more than four tokens whose first four are a label and three
\* numbers
HasTrailingTokens(s) == WellFormed(s) /\ TokenCount(s) > 4

\* C7: a line among the first n_atoms with more than four tokens, the first
\* four a label and three numbers, is parsed: the error is not raised on it,
\* and the label and coordinates stored and returned for it are those of its
\* first four tokens.
C7_TrailingIgnored ==
    \A k \in 1..n_atoms :
       (k <= Len(input) /\ HasTrailingTokens(input[k]))
       => /\ ~(pc = "thrown" /\ Len(reads) = k)
          /\ (pc = "loop" /\ i >= k) => RecordOf(atoms, xyz, k, input[k])
          /\ pc = "returned" => RecordOf(ret.atoms, ret.xyz, k, input[k])

C7_Witness ==
    /\ pc = "returned"
    /\ n_atoms = 2
    /\ Len(input) = 2
    /\ HasTrailingTokens(input[2])
    /\ ret.atoms[2] = <<"O">>
    /\ ret.xyz[6] = MkFloat(3, 0)

\* C8: a call has the outcome of an earlier call with the same (lines, n).
C8_Stateless ==
    (/\ hist.kind = "call"
     /\ Over
     /\ hist.input = input
     /\ hist.n_atoms = n_atoms)
    => ret = hist.ret

\* the first of the first n_atoms lines on which the extraction fails
FailsAt(k) ==
    /\ k \in 1..n_atoms
    /\ k <= Len(input)
    /\ ~ExtractRecord(input[k]).ok
    /\ \A j \in 1..(k - 1) : ExtractRecord(input[j]).ok

TimesWritten(vec, idx) ==
    Cardinality({k \in 1..Len(written) : written[k] = [vec |-> vec, idx |-> idx]})

\* C10: at the start of iteration i the first i records hold the parsed
\* values of the lines read, the other labels are empty and the other
\* coordinates 0; every assignment is inside [0, n_atoms) of the labels or
\* [0, 3 * n_atoms) of the coordinates; a returning call has assigned every
\* element once.
C10_LoopInvariant ==
    /\ pc = "loop" =>
          /\ i \in 0..n_atoms
          /\ Len(atoms) = n_atoms
          /\ Len(xyz) = 3 * n_atoms
          /\ Len(reads) = i
          /\ \A k \in 1..i :
                /\ k <= Len(input) => reads[k].line = input[k]
                /\ atoms[k] = ExtractRecord(reads[k].line).atom
                /\ xyz[3 * (k - 1) + 1] = ExtractRecord(reads[k].line).x
                /\ xyz[3 * (k - 1) + 2] = ExtractRecord(reads[k].line).y
                /\ xyz[3 * (k - 1) + 3] = ExtractRecord(reads[k].line).z
          /\ \A k \in (i + 1)..n_atoms : atoms[k] = EmptyString
          /\ \A k \in (3 * i + 1)..(3 * n_atoms) : xyz[k] = FloatZero
    /\ \A k \in 1..Len(written) :
          /\ written[k].vec = "atoms" => written[k].idx \in 0..(n_atoms - 1)
          /\ written[k].vec = "xyz" => written[k].idx \in 0..(3 * n_atoms - 1)
    /\ pc = "returned" =>
          /\ \A k \in 0..(n_atoms - 1) : TimesWritten("atoms", k) = 1
          /\ \A k \in 0..(3 * n_atoms - 1) : TimesWritten("xyz", k) = 1
          /\ Len(written) = 4 * n_atoms

C10_Witness ==
    /\ pc = "loop"
    /\ n_atoms = 3
    /\ i = 2
    /\ Len(input) = 2
    /\ atoms[1] # atoms[2]
    /\ xyz[1] # FloatZero
    /\ xyz[4] # FloatZero

=============================================================================
